---- MODULE Spec2Model ----
(***************************************************************************)
(* Model of app/clients/law_client.py (LawClient): one logical client      *)
(* operation (search_laws, get_law_detail or search_attachments) run       *)
(* against an upstream that may answer every physical GET in any way, and  *)
(* of the route of main.py that answers its caller with the outcome.       *)
(* SpecClassify applies _validate_json_response alone to one response;     *)
(* SpecTasks runs several calls side by side as cooperative tasks.         *)
(*                                                                         *)
(* Strings are modelled as sequences of parts (tokens); "x in text" is     *)
(* membership of a part, concatenation is \o.  Korean keys and keywords    *)
(* are romanised because the module is ASCII:                              *)
(*   beopryeong = 법령, gibonjeongbo = 기본정보,                            *)
(*   beopryeongilryeonbeonho = 법령일련번호,                                *)
(*   beopryeongmyeong_hangeul = 법령명_한글,                                *)
(*   beopryeongmyeonghangeul = 법령명한글, sihaengilja = 시행일자,          *)
(*   injeung = 인증, gwonhan = 권한, heoga = 허가, seungin = 승인,          *)
(*   jeopsok = 접속, chadan = 차단, jehan = 제한,                           *)
(*   beopryeongID = 법령ID, beopryeongmyeong = 법령명, gongpoilja = 공포일자, *)
(*   byeolpyoseosikmyeong = 별표서식명, jongryu = 종류, beonho = 번호,       *)
(*   sogwanbucheo = 소관부처, HTMLlingkeu = HTML링크,                        *)
(*   pailingkeu = 파일링크, PDFlingkeu = PDF링크.                            *)
(***************************************************************************)
EXTENDS Integers, Sequences, FiniteSets, TLC

VARIABLES
    pc,          \* phase of the logical operation
    op,          \* the operation called ("" before the call)
    search,      \* the caller's search argument (mode) of search_laws
    params,      \* query parameters of the formulation being requested
    i,           \* index of the header combination last tried (loop variable)
    inflight,    \* a physical GET is awaiting its answer
    last_error,  \* _make_request_with_fallback's local last_error ("" = None)
    e,           \* the exception caught by search_laws's outer except (1st phase)
    result,      \* what the operation returned or raised
    returned,    \* the response the operation's result was computed from
    reqs,        \* the physical requests issued so far, in order
    seen,        \* what upstream answered so far (observation of the answers)
    http,        \* the answer of the route of main.py that called the operation
    waits,       \* the time the loop slept before each attempt that follows a failed one
    pools,       \* the HTTP clients (connection pools) constructed and closed so far
    self,        \* the attributes of the LawClient instance that concurrent calls share
    frames,      \* the locals of each of the concurrently running coroutines
    own          \* per task: its call, its requests and the answers to them

vars == <<pc, op, search, params, i, inflight, last_error, e, result, returned, reqs, seen,
          http, waits, pools, self, frames, own>>

\* the state of the concurrent tasks, which a single logical call leaves alone
task_vars == <<self, frames, own>>

\* the state of the single logical call
call_vars == <<pc, op, search, params, i, inflight, last_error, e, result, returned, reqs,
               seen, http, waits, pools>>

----------------------------------------------------------------------------
(* Bounds of the model and constants of the program.                       *)

\* the caller's search argument ranges over 0..MaxSearch
MaxSearch == 3

\* len(header_combinations)
NumHeaderCombinations == 3

\* response.text[:300]
PreviewLen == 300

----------------------------------------------------------------------------
(* JSON values: tagged, as Python sees them after response.json().         *)

JD(f) == [t |-> "dict", v |-> f]
JL(s) == [t |-> "list", v |-> s]
JS(s) == [t |-> "str", v |-> s]
JI(n) == [t |-> "int", v |-> n]
JNone == [t |-> "NoneType", v |-> 0]

EmptyMap == [k \in {} |-> JNone]

\* Python truthiness of a JSON value
Truthy(x) ==
    CASE x.t = "dict" -> DOMAIN x.v # {}
      [] x.t = "list" -> Len(x.v) > 0
      [] x.t = "str"  -> x.v # ""
      [] x.t = "int"  -> x.v # 0
      [] OTHER        -> FALSE

\* a or b
Or(a, b) == IF Truthy(a) THEN a ELSE b

\* d.get(k, default) for a dict d
Get(d, k, default) == IF k \in DOMAIN d.v THEN d.v[k] ELSE default

\* str(x) inside an f-string
Str(x) ==
    CASE x.t = "str" -> x.v
      [] x.t = "int" -> ToString(x.v)
      [] x.t = "NoneType" -> "None"
      [] OTHER -> x.t

----------------------------------------------------------------------------
(* Upstream payloads.  A payload is named by the part of the body that     *)
(* holds it; Doc gives the value json.loads produces for it.               *)

rec1 == JD([beopryeongID |-> JS("123"), beopryeongmyeonghangeul |-> JS("title1"),
            sihaengilja |-> JS("20250101")])
rec2 == JD([beopryeongID |-> JS("456"), beopryeongmyeonghangeul |-> JS("title2"),
            sihaengilja |-> JS("20250301")])
rec3 == JD([beopryeongID |-> JS("123"), LAW_ID |-> JS("L123"),
            beopryeongmyeonghangeul |-> JS("title1"), LAW_NM |-> JS("title3"),
            sihaengilja |-> JS("20250101"), EF_YD |-> JS("20240101"),
            gongpoilja |-> JS("20241201")])
att1 == JD([beopryeongID |-> JS("123"), byeolpyoseosikmyeong |-> JS("table1")])
att2 == JD([beopryeongID |-> JS("123"), LAW_ID |-> JS("L123"),
            beopryeongmyeong |-> JS(""), LAW_NM |-> JS("title3"),
            byeolpyoseosikmyeong |-> JS("table1"), ATTACHMENT_NAME |-> JS("form1"),
            jongryu |-> JS("byeolpyo"), PO_DT |-> JS("20241201")])

info_mst == JD([beopryeongID |-> JS("007363"), beopryeongmyeonghangeul |-> JS("title1"),
                sihaengilja |-> JS("20250101"), MST |-> JS("mst123")])
info_mst_nodate == JD([MST |-> JS("mst123"), LAW_NM |-> JS("title3")])
info_serial == JD([beopryeongilryeonbeonho |-> JI(777),
                   beopryeongmyeong_hangeul |-> JS("title2"), EF_YD |-> JS("20240101")])
info_both == JD([MST |-> JS("mst123"), beopryeongilryeonbeonho |-> JI(777),
                 beopryeongmyeong_hangeul |-> JS("title2"),
                 beopryeongmyeonghangeul |-> JS("title1"), LAW_NM |-> JS("title3"),
                 sihaengilja |-> JS("20250101"), EF_YD |-> JS("20240101")])
info_nomst == JD([beopryeongmyeonghangeul |-> JS("title1"), MST |-> JS("")])

Doc(name) ==
    CASE name = "{LawSearch:{law:[r1,r2],totalCnt:2}}" ->
            JD([LawSearch |-> JD([law |-> JL(<<rec1, rec2>>), totalCnt |-> JI(2)])])
      [] name = "{LawSearch:{law:r1,totalCnt:'1'}}" ->
            JD([LawSearch |-> JD([law |-> rec1, totalCnt |-> JS("1")])])
      [] name = "{law:[r1]}" ->
            JD([law |-> JL(<<rec1>>)])
      [] name = "{LawSearch:{law:[],totalCnt:'abc'}}" ->
            JD([LawSearch |-> JD([law |-> JL(<<>>), totalCnt |-> JS("abc")])])
      [] name = "{LawSearch:{law:[r1],totalCnt:null}}" ->
            JD([LawSearch |-> JD([law |-> JL(<<rec1>>), totalCnt |-> JNone])])
      [] name = "{LawSearch:{law:[r3],totalCnt:1}}" ->
            JD([LawSearch |-> JD([law |-> JL(<<rec3>>), totalCnt |-> JI(1)])])
      [] name = "{licBylSearch:{licbyl:[a2],totalCnt:1}}" ->
            JD([licBylSearch |-> JD([licbyl |-> JL(<<att2>>), totalCnt |-> JI(1)])])
      [] name = "{LawSearch:{law:null,totalCnt:0}}" ->
            JD([LawSearch |-> JD([law |-> JNone, totalCnt |-> JI(0)])])
      [] name = "[r1]" ->
            JL(<<rec1>>)
      [] name = "{LawSearch:[r1]}" ->
            JD([LawSearch |-> JL(<<rec1>>)])
      [] name = "{licBylSearch:{licbyl:[a1],totalCnt:1}}" ->
            JD([licBylSearch |-> JD([licbyl |-> JL(<<att1>>), totalCnt |-> JI(1)])])
      [] name = "{licBylSearch:{licbyl:a1,totalCnt:1}}" ->
            JD([licBylSearch |-> JD([licbyl |-> att1, totalCnt |-> JI(1)])])
      [] name = "{licBylSearch:{licbyl:[],totalCnt:'abc'}}" ->
            JD([licBylSearch |-> JD([licbyl |-> JL(<<>>), totalCnt |-> JS("abc")])])
      [] name = "{law:info_mst}" ->
            JD([law |-> info_mst])
      [] name = "{law:info_mst_nodate}" ->
            JD([law |-> info_mst_nodate])
      [] name = "{law:info_nomst}" ->
            JD([law |-> info_nomst])
      [] name = "{beopryeong:{gibonjeongbo:info_serial}}" ->
            JD([beopryeong |-> JD([gibonjeongbo |-> info_serial])])
      [] name = "{beopryeong:{gibonjeongbo:info_both},law:info_nomst}" ->
            JD([beopryeong |-> JD([gibonjeongbo |-> info_both]), law |-> info_nomst])
      [] name = "{beopryeong:{gibonjeongbo:{}}}" ->
            JD([beopryeong |-> JD([gibonjeongbo |-> JD(EmptyMap)])])
      [] name = "{beopryeong:{gibonjeongbo:{}},law:info_mst}" ->
            JD([beopryeong |-> JD([gibonjeongbo |-> JD(EmptyMap)]), law |-> info_mst])
      [] name = "{beopryeong:{},law:info_mst}" ->
            JD([beopryeong |-> JD(EmptyMap), law |-> info_mst])
      [] name = "{beopryeong:{gibonjeongbo:'text'}}" ->
            JD([beopryeong |-> JD([gibonjeongbo |-> JS("text")])])
      [] name = "{beopryeong:[r1]}" ->
            JD([beopryeong |-> JL(<<rec1>>)])
      [] name = "{}" ->
            JD(EmptyMap)

SearchDocs ==
    { "{LawSearch:{law:[r1,r2],totalCnt:2}}", "{LawSearch:{law:r1,totalCnt:'1'}}",
      "{law:[r1]}", "{LawSearch:{law:[],totalCnt:'abc'}}",
      "{LawSearch:{law:[r1],totalCnt:null}}", "[r1]", "{LawSearch:[r1]}",
      "{LawSearch:{law:[r3],totalCnt:1}}", "{LawSearch:{law:null,totalCnt:0}}" }

AttachmentDocs ==
    { "{licBylSearch:{licbyl:[a1],totalCnt:1}}", "{licBylSearch:{licbyl:a1,totalCnt:1}}",
      "{licBylSearch:{licbyl:[],totalCnt:'abc'}}", "[r1]",
      "{licBylSearch:{licbyl:[a2],totalCnt:1}}" }

DetailDocs ==
    { "{law:info_mst}", "{law:info_mst_nodate}", "{law:info_nomst}",
      "{beopryeong:{gibonjeongbo:info_serial}}",
      "{beopryeong:{gibonjeongbo:info_both},law:info_nomst}",
      "{beopryeong:{gibonjeongbo:{}}}", "{beopryeong:{gibonjeongbo:{}},law:info_mst}",
      "{beopryeong:{},law:info_mst}", "{beopryeong:{gibonjeongbo:'text'}}",
      "{beopryeong:[r1]}", "{}", "[r1]" }

DocNames == SearchDocs \cup AttachmentDocs \cup DetailDocs

----------------------------------------------------------------------------
(* Response bodies and headers as texts (sequences of parts).              *)

Whitespace == {" ", "\n"}

\* str.lower() on one part
LowerPart(p) ==
    CASE p = "<HTML" -> "<html"
      [] p = "TEXT/HTML" -> "text/html"
      [] p = "Application/JSON" -> "application/json"
      [] OTHER -> p

Lower(txt) == [k \in 1..Len(txt) |-> LowerPart(txt[k])]

\* needle in text
In(needle, txt) == \E k \in 1..Len(txt) : txt[k] = needle

\* text.strip()
RECURSIVE LStrip(_)
LStrip(txt) ==
    IF txt # <<>> /\ Head(txt) \in Whitespace THEN LStrip(Tail(txt)) ELSE txt

RECURSIVE RStrip(_)
RStrip(txt) ==
    IF txt # <<>> /\ txt[Len(txt)] \in Whitespace
    THEN RStrip(SubSeq(txt, 1, Len(txt) - 1)) ELSE txt

Strip(txt) == RStrip(LStrip(txt))

\* json.loads(text): surrounding whitespace is skipped, the rest must be one document
Parses(txt) == Len(Strip(txt)) = 1 /\ Strip(txt)[1] \in DocNames

Loads(txt) == Doc(Strip(txt)[1])

HtmlBodies ==
    { <<"<html", ">page access failed</html>">>,
      <<"<HTML", ">", "injeung", "</html>">>,
      <<"<html", ">", "gwonhan", "chadan", "</html>">>,
      <<"<html", ">", "jeopsok", "</html>">> }

OtherBodies == { <<>>, <<" ", "\n">>, <<"injeung">>, <<"not json">> }

\* self.oc (LAW_OC) and self.base_url (DEFAULT_BASE)
oc == "TEST_API_KEY"

base_url == "http://www.law.go.kr/DRF"

endpoint(o) == IF o = "get_law_detail" THEN "/lawService.do" ELSE "/lawSearch.do"

\* a plain-text error body in which upstream echoes the URL it was asked for
\* (full_url begins with f"{base_url}?OC={self.oc}&target=")
EchoBody(o) == <<"invalid request: ", base_url, endpoint(o), "?OC=", oc, "&target=">>

\* the documents upstream serves on the endpoint of operation o
DocsOf(o) ==
    CASE o = "search_laws" -> SearchDocs
      [] o = "search_attachments" -> AttachmentDocs
      [] o = "get_law_detail" -> DetailDocs
      [] OTHER -> {}

Bodies(o) ==
    HtmlBodies \cup OtherBodies \cup { EchoBody(o) } \cup { <<d>> : d \in DocsOf(o) }
    \cup { <<" ", d, "\n">> : d \in DocsOf(o) \cap {"{law:[r1]}", "{law:info_mst}"} }

ContentTypes == { <<>>, <<"TEXT/HTML", "; charset=utf-8">>, <<"application/json">> }

Statuses == {200, 403, 404, 429, 500}

\* str(e) of the transport exceptions temp_client.get can raise
TransportErrors == {"ConnectError", "ReadTimeout"}

\* what upstream can do with one physical GET of operation o: raise exc, or answer
\* (the loop never reads the body of an answer that has neither status 200 nor
\* a JSON content type, so these answers come with two bodies only)
Answers(o) ==
    [exc : TransportErrors, status_code : {0}, content_type : {<<>>}, text : {<<>>}]
    \cup
    [exc : {""}, status_code : {200}, content_type : ContentTypes, text : Bodies(o)]
    \cup
    [exc : {""}, status_code : Statuses \ {200}, content_type : {<<"application/json">>},
     text : Bodies(o)]
    \cup
    [exc : {""}, status_code : Statuses \ {200},
     content_type : ContentTypes \ {<<"application/json">>},
     text : {<<>>, <<"<html", ">page access failed</html>">>}]

----------------------------------------------------------------------------
(* Exceptions and results of a computation.                                *)

\* an exception: its class, str(e), and (UpstreamServiceError only) e.detail
Exc(type, message, detail) == [type |-> type, message |-> message, detail |-> detail]

NoExc == Exc("", "", <<>>)

LawNotFoundError == Exc("LawNotFoundError", "", <<>>)

UpstreamServiceError(message, detail) == Exc("UpstreamServiceError", message, detail)

AttributeError(x) == Exc("AttributeError", "object has no attribute 'get'", <<x.t>>)

Return(val) == [exc |-> NoExc, val |-> val]

Raise(exc) == [exc |-> exc, val |-> JNone]

Raised(r) == r.exc.type # ""

----------------------------------------------------------------------------
(* LawClient._validate_json_response                                       *)

AuthKeywords == {"injeung", "gwonhan", "heoga", "seungin"}

BlockKeywords == {"jeopsok", "chadan", "jehan"}

any(keywords, txt) == \E kw \in keywords : In(kw, txt)

Take(txt, n) == IF Len(txt) > n THEN SubSeq(txt, 1, n) ELSE txt

html_error_detail(response) ==
    LET content_type == Lower(response.content_type)
        text_lower == Lower(response.text)
    IN  IF any(AuthKeywords, text_lower)
        THEN <<"AUTHENTICATION_ERROR - check the API key">>
        ELSE IF any(BlockKeywords, text_lower)
        THEN <<"ACCESS_BLOCKED - IP or request blocked">>
        ELSE <<"HTML_RESPONSE - Content-Type: ">> \o content_type

\* a classifier that takes every body holding a keyword for an HTML page
validate_json_response_by_keyword(response) ==
    LET content_type == Lower(response.content_type)
    IN  IF response.text = <<>> \/ Strip(response.text) = <<>>
        THEN Raise(UpstreamServiceError("empty response", <<"EMPTY_RESPONSE">>))
        ELSE IF \/ In("text/html", content_type) \/ In("<html", Lower(response.text))
                \/ any(AuthKeywords \cup BlockKeywords, Lower(response.text))
        THEN Raise(UpstreamServiceError("HTML response", html_error_detail(response)))
        ELSE IF Parses(response.text)
        THEN Return(Loads(response.text))
        ELSE Raise(UpstreamServiceError("JSON parsing failed",
                     <<"JSON_PARSE_ERROR: ", "JSONDecodeError", " | Preview: ">>
                     \o Take(response.text, PreviewLen)))

validate_json_response(response) ==
    LET content_type == Lower(response.content_type)
    IN  IF response.text = <<>> \/ Strip(response.text) = <<>>
        THEN Raise(UpstreamServiceError("empty response", <<"EMPTY_RESPONSE">>))
        ELSE IF In("text/html", content_type) \/ In("<html", Lower(response.text))
        THEN Raise(UpstreamServiceError("HTML response", html_error_detail(response)))
        ELSE IF Parses(response.text)
        THEN Return(Loads(response.text))
        ELSE Raise(UpstreamServiceError("JSON parsing failed",
                     <<"JSON_PARSE_ERROR: ", "JSONDecodeError", " | Preview: ">>
                     \o Take(response.text, PreviewLen)))

----------------------------------------------------------------------------
(* The envelope processing shared by search_laws (both phases) and         *)
(* search_attachments.                                                     *)

Numeric == {"0", "1", "2"}

StrToInt(s) == CASE s = "0" -> 0 [] s = "1" -> 1 [] s = "2" -> 2

\* int(x)
int(x) ==
    CASE x.t = "int" -> Return(JI(x.v))
      [] x.t = "str" /\ x.v \in Numeric -> Return(JI(StrToInt(x.v)))
      [] x.t = "str" -> Raise(Exc("ValueError", "invalid literal for int() with base 10", <<>>))
      [] OTHER -> Raise(Exc("TypeError", "int() argument must be a string or a number", <<>>))

\* container = data.get(wrapper, data); items = container.get(field, []); ...
unwrap(data, wrapper, field) ==
    IF data.t # "dict" THEN Raise(AttributeError(data))
    ELSE LET container == Get(data, wrapper, data)
         IN  IF container.t # "dict" THEN Raise(AttributeError(container))
             ELSE LET items0 == Get(container, field, JL(<<>>))
                      items == IF items0.t = "dict" THEN JL(<<items0>>) ELSE items0
                      total == int(Get(container, "totalCnt", JI(0)))
                  IN  IF Raised(total) THEN total
                      ELSE Return([items |-> items, total |-> total.val.v])

\* data = self._validate_json_response(response); then the unwrapping
search_records(response, wrapper, field) ==
    LET data == validate_json_response(response)
    IN  IF Raised(data) THEN data ELSE unwrap(data.val, wrapper, field)

----------------------------------------------------------------------------
(* LawClient: construction-time state and request parameters.              *)

\* the arguments the model calls the operations with
Query == <<" ", "safety law", " ">>

LawIds == {"007363"}

\* quote(q.strip(), safe="", encoding="utf-8") on one part
quote(q) ==
    CASE Strip(q) = <<"safety law">> -> "safety%20law"
      [] OTHER -> ""

\* default page and size
Page == 1

Size == 10

search_params(target) ==
    [OC |-> oc, target |-> target, type |-> "JSON", query |-> quote(Query),
     display |-> ToString(Size), page |-> ToString(Page)]

\* the second formulation built without the search parameter
params_search_forgotten(p, s) == p

\* {**params, "search": str(search)}
params_with_search(p, s) ==
    [k \in DOMAIN p \cup {"search"} |-> IF k = "search" THEN ToString(s) ELSE p[k]]

detail_params(law_id) ==
    [OC |-> oc, target |-> "law", type |-> "JSON", ID |-> law_id]

\* one physical GET: temp_client.get(full_url, headers=header_combinations[h])
Request(o, p, h) == [url |-> <<base_url, endpoint(o)>>, params |-> p, headers |-> h]

----------------------------------------------------------------------------
(* LawClient._make_request_with_fallback: what the loop does with the      *)
(* answer to one GET.                                                      *)

\* a loop that runs once more than there are header combinations
more_headers_off_by_one(k) == k <= NumHeaderCombinations

\* a loop over no header combination at all
more_headers_never(k) == k < 0

\* for i, headers in enumerate(header_combinations, 1): another combination is left
more_headers(k) == k < NumHeaderCombinations

\* an acceptance test that forgets the status code
accepted_any_status(response) ==
    LET content_type == Lower(response.content_type)
    IN  \/ ~In("text/html", content_type)
        \/ In("application/json", content_type)

\* the two return statements of the loop body
accepted(response) ==
    LET content_type == Lower(response.content_type)
    IN  \/ response.status_code = 200 /\ ~In("text/html", content_type)
        \/ In("application/json", content_type)

\* `continue` (or the end of the loop body) leads straight to the next GET: the
\* loop sleeps for no time between a failed attempt and attempt k
wait_before_attempt(k) == 0

\* the raise after the loop
all_attempts_failed(last) ==
    UpstreamServiceError("no JSON response with any header combination",
        <<"last error: ", IF last # "" THEN last ELSE "ALL_ATTEMPTS_FAILED">>)

----------------------------------------------------------------------------
(* LawClient.get_law_detail: the try body after the response arrived.      *)

\* data.get("beopryeong", {}).get("gibonjeongbo", data.get("law", {}))
law_info_of(data) ==
    IF data.t # "dict" THEN Raise(AttributeError(data))
    ELSE LET outer == Get(data, "beopryeong", JD(EmptyMap))
         IN  IF outer.t # "dict" THEN Raise(AttributeError(outer))
             ELSE Return(Get(outer, "gibonjeongbo", Get(data, "law", JD(EmptyMap))))

resolve_mst(law_info) ==
    Or(Get(law_info, "MST", JNone), Get(law_info, "beopryeongilryeonbeonho", JNone))

resolve_title(law_info) ==
    Or(Get(law_info, "beopryeongmyeong_hangeul", JNone),
       Or(Get(law_info, "beopryeongmyeonghangeul", JNone),
          Or(Get(law_info, "LAW_NM", JNone), JS(""))))

resolve_eff(law_info) ==
    Or(Get(law_info, "sihaengilja", JNone), Or(Get(law_info, "EF_YD", JNone), JS("")))

\* a URL builder that appends the date qualifier whatever the date is
source_url_always_dated(law_id, mst, eff) ==
    IF Truthy(mst)
    THEN <<base_url, "/lawService.do?OC=", oc, "&target=law&type=HTML&MST=", Str(mst)>>
         \o <<"&efYd=", Str(eff)>>
    ELSE <<base_url, "/lawService.do?OC=", oc, "&target=law&type=HTML&ID=", law_id>>

source_url(law_id, mst, eff) ==
    IF Truthy(mst)
    THEN <<base_url, "/lawService.do?OC=", oc, "&target=law&type=HTML&MST=", Str(mst)>>
         \o (IF Truthy(eff) THEN <<"&efYd=", Str(eff)>> ELSE <<>>)
    ELSE <<base_url, "/lawService.do?OC=", oc, "&target=law&type=HTML&ID=", law_id>>

law_detail(response, law_id) ==
    IF response.status_code = 404 THEN Raise(LawNotFoundError)
    ELSE LET data == validate_json_response(response)
         IN  IF Raised(data) THEN data
             ELSE LET law_info == law_info_of(data.val)
                  IN  IF Raised(law_info) THEN law_info
                      ELSE IF ~Truthy(law_info.val) THEN Raise(LawNotFoundError)
                      ELSE IF law_info.val.t # "dict" THEN Raise(AttributeError(law_info.val))
                      ELSE LET mst == resolve_mst(law_info.val)
                               title == resolve_title(law_info.val)
                               eff == resolve_eff(law_info.val)
                           IN  Return([law_id |-> law_id, title |-> title,
                                       effective_date |-> eff,
                                       source_url |-> source_url(law_id, mst, eff)])

----------------------------------------------------------------------------
(* The three operations: what each does with the outcome of one call of    *)
(* _make_request_with_fallback (a returned response or a raised error).    *)

NoResponse == [exc |-> "none", status_code |-> 0, content_type |-> <<>>, text |-> <<>>]

\* the statements of the try body that follow the await
try_body(o, p, r) ==
    IF Raised(r) THEN r
    ELSE CASE o = "search_laws" -> search_records(r.val, "LawSearch", "law")
           [] o = "search_attachments" -> search_records(r.val, "licBylSearch", "licbyl")
           [] o = "get_law_detail" -> law_detail(r.val, p.ID)

\* search_laws, inner except: raise UpstreamServiceError(.., detail=f"1st: {e.detail} | 2nd: {str(e2)}")
both_failed(e1, e2) ==
    UpstreamServiceError("search failed (1st and 2nd attempt)",
        <<"1st: ">> \o e1.detail \o <<" | 2nd: ", e2.message>>)

\* the except clauses of get_law_detail and search_attachments
reraise_or_wrap(o, x) ==
    IF x.type = "LawNotFoundError" /\ o = "get_law_detail" THEN x
    ELSE IF x.type = "UpstreamServiceError" THEN x
    ELSE UpstreamServiceError(
             IF o = "get_law_detail" THEN "detail lookup failed"
             ELSE "attachment search failed",
             <<x.message>>)

----------------------------------------------------------------------------
(* main.py: the routes that call the operations and the exception          *)
(* handlers.  An answer is [status_code, code, detail, body]: code and     *)
(* detail are those of ErrorResponse (detail <<>> = None), body is the     *)
(* response model of a 200 answer.                                         *)

Answer(status_code, code, detail, body) ==
    [status_code |-> status_code, code |-> code, detail |-> detail, body |-> body]

NoAnswer == Answer(0, "", <<>>, JNone)

\* pydantic_core.ValidationError is a subclass of ValueError
ValidationError == Exc("ValueError", "validation error", <<>>)

\* a field declared str / Optional[str]
is_str(x) == x.t = "str"

is_optional_str(x) == x.t \in {"str", "NoneType"}

\* it.get(k)
get(it, k) == Get(it, k, JNone)

\* a mapping of search records that looks the Korean keys up first
law_search_item_korean_first(it) ==
    LET law_id == Or(get(it, "beopryeongID"), get(it, "LAW_ID"))
        title == Or(get(it, "beopryeongmyeonghangeul"), get(it, "LAW_NM"))
        eff == Or(get(it, "sihaengilja"), get(it, "EF_YD"))
        promulgation == Or(get(it, "gongpoilja"), get(it, "PO_DT"))
    IN  [law_id |-> Or(law_id, JS("")), title |-> Or(title, JS("")),
         effective_date |-> Or(eff, JS("")), promulgation_date |-> promulgation]

\* route search_laws: the keyword arguments of LawSearchItem(...)
law_search_item(it) ==
    LET law_id == Or(get(it, "LAW_ID"), get(it, "beopryeongID"))
        title == Or(get(it, "LAW_NM"), get(it, "beopryeongmyeonghangeul"))
        eff == Or(get(it, "EF_YD"), get(it, "sihaengilja"))
        promulgation == Or(get(it, "PO_DT"), get(it, "gongpoilja"))
    IN  [law_id |-> Or(law_id, JS("")), title |-> Or(title, JS("")),
         effective_date |-> Or(eff, JS("")), promulgation_date |-> promulgation]

\* route search_attachments: the keyword arguments of AttachmentItem(...)
attachment_item(it) ==
    [law_id |-> Or(Or(get(it, "beopryeongID"), get(it, "LAW_ID")), JS("")),
     law_title |-> Or(Or(get(it, "beopryeongmyeong"), get(it, "LAW_NM")), JS("")),
     attachment_name |->
         Or(Or(get(it, "byeolpyoseosikmyeong"), get(it, "ATTACHMENT_NAME")), JS("")),
     attachment_type |-> Or(Or(get(it, "jongryu"), get(it, "TYPE")), JS("")),
     attachment_no |-> Or(get(it, "beonho"), get(it, "NO")),
     ministry |-> Or(get(it, "sogwanbucheo"), get(it, "MINISTRY")),
     promulgation_date |-> Or(get(it, "gongpoilja"), get(it, "PO_DT")),
     html_link |-> Or(get(it, "HTMLlingkeu"), get(it, "HTML_LINK")),
     file_link |-> Or(get(it, "pailingkeu"), get(it, "FILE_LINK")),
     pdf_link |-> Or(get(it, "PDFlingkeu"), get(it, "PDF_LINK"))]

RequiredFields(o) ==
    CASE o = "search_laws" -> {"law_id", "title", "effective_date"}
      [] o = "search_attachments" ->
            {"law_id", "law_title", "attachment_name", "attachment_type"}
      [] o = "get_law_detail" -> {"title", "effective_date"}

\* the model class accepts the keyword arguments
validates(o, kw) ==
    \A f \in DOMAIN kw \ {"source_url"} :
        IF f \in RequiredFields(o) THEN is_str(kw[f]) ELSE is_optional_str(kw[f])

\* for it in items: mapped.append(Item(...)); the outcome of the loop
map_items(o, items) ==
    CASE items.t = "list" ->
            IF \E k \in 1..Len(items.v) : items.v[k].t # "dict"
            THEN Raise(AttributeError(
                     items.v[CHOOSE k \in 1..Len(items.v) : items.v[k].t # "dict"]))
            ELSE LET kws == [k \in 1..Len(items.v) |->
                                IF o = "search_laws" THEN law_search_item(items.v[k])
                                ELSE attachment_item(items.v[k])]
                 IN  IF \E k \in 1..Len(kws) : ~validates(o, kws[k])
                     THEN Raise(ValidationError)
                     ELSE Return(kws)
      [] items.t = "str" ->
            IF items.v = "" THEN Return(<<>>) ELSE Raise(AttributeError(items))
      [] OTHER -> Raise(Exc("TypeError", "object is not iterable", <<items.t>>))

\* the route after `await client.<operation>(...)` returned val
route_body(o, val) ==
    IF o = "get_law_detail"
    THEN IF validates(o, [f \in DOMAIN val \ {"law_id"} |-> val[f]])
         THEN Return(val) ELSE Raise(ValidationError)
    ELSE LET mapped == map_items(o, val.items)
         IN  IF Raised(mapped) THEN mapped
             ELSE Return([items |-> mapped.val, page |-> Page, size |-> Size,
                          total |-> val.total])

\* the exception handlers registered on the app
handle(exc) ==
    CASE exc.type = "LawNotFoundError" -> Answer(404, "LAW_NOT_FOUND", <<>>, JNone)
      [] exc.type = "UpstreamServiceError" ->
            Answer(503, "UPSTREAM_ERROR", exc.detail, JNone)
      [] exc.type = "ValueError" -> Answer(400, "INVALID_PARAMETER", <<exc.message>>, JNone)
      [] OTHER -> Answer(500, "", <<>>, JNone)

\* Query(1, ge=1, le=2) on the search parameter of the route
RequestValidationError == Answer(422, "", <<>>, JNone)

\* the answer of the route whose call of the operation ended with r
respond(o, r) ==
    IF Raised(r) THEN handle(r.exc)
    ELSE LET out == route_body(o, r.val)
         IN  IF Raised(out) THEN handle(out.exc)
             ELSE Answer(200, "", <<>>, out.val)

\* the operation ends: it returns r.val or raises r.exc
End(r, resp) ==
    /\ pc' = IF Raised(r) THEN "Failed" ELSE "Success"
    /\ result' = r
    /\ http' = respond(op, r)
    /\ UNCHANGED waits
    /\ returned' = resp
    /\ inflight' = FALSE
    /\ UNCHANGED <<op, search, params, i, last_error, e>>

\* search_laws, outer except: the second formulation is prepared
StartFallback(x) ==
    /\ pc' = "Fallback"
    /\ e' = x
    /\ params' = params_with_search(params, search)
    /\ i' = 0
    /\ last_error' = ""
    /\ inflight' = FALSE
    /\ UNCHANGED <<op, search, result, returned, http, waits>>

\* a search_laws whose failed fallback phase starts another fallback phase
Continue_fallback_again(r, resp) ==
    LET out == try_body(op, params, r)
    IN  CASE op = "search_laws" ->
                IF out.exc.type = "UpstreamServiceError" THEN StartFallback(out.exc)
                ELSE End(out, resp)
          [] OTHER ->
                IF Raised(out) THEN End(Raise(reraise_or_wrap(op, out.exc)), resp)
                ELSE End(out, resp)

\* a search_attachments that retries with the search parameter like search_laws
Continue_attachments_fallback(r, resp) ==
    LET out == try_body(op, params, r)
    IN  CASE op \in {"search_laws", "search_attachments"} /\ pc = "Primary" ->
                IF out.exc.type = "UpstreamServiceError" THEN StartFallback(out.exc)
                ELSE End(out, resp)
          [] op = "search_laws" /\ pc = "Fallback" ->
                IF Raised(out) THEN End(Raise(both_failed(e, out.exc)), resp)
                ELSE End(out, resp)
          [] OTHER ->
                IF Raised(out) THEN End(Raise(reraise_or_wrap(op, out.exc)), resp)
                ELSE End(out, resp)

\* _make_request_with_fallback gave r (resp is the response it returned, if any)
Continue(r, resp) ==
    LET out == try_body(op, params, r)
    IN  CASE op = "search_laws" /\ pc = "Primary" ->
                IF out.exc.type = "UpstreamServiceError" THEN StartFallback(out.exc)
                ELSE End(out, resp)
          [] op = "search_laws" /\ pc = "Fallback" ->
                IF Raised(out) THEN End(Raise(both_failed(e, out.exc)), resp)
                ELSE End(out, resp)
          [] OTHER ->
                IF Raised(out) THEN End(Raise(reraise_or_wrap(op, out.exc)), resp)
                ELSE End(out, resp)

----------------------------------------------------------------------------
(* Observation of the upstream answers of the logical call.                *)

\* the class of one upstream answer: "transient" for a transport error, status
\* 429 or 5xx; "malformed" for a status-200 answer that is an HTML page or does
\* not parse as JSON; "ok" for a status-200 answer that parses as JSON;
\* "other" otherwise
FailureClass(ans) ==
    IF ans.exc # "" \/ ans.status_code = 429 \/ ans.status_code >= 500 THEN "transient"
    ELSE IF ans.status_code # 200 \/ Strip(ans.text) = <<>> THEN "other"
    ELSE IF \/ In("text/html", Lower(ans.content_type))
            \/ In("<html", Lower(ans.text))
            \/ ~Parses(ans.text)
    THEN "malformed"
    ELSE "ok"

NoneSeen == [n |-> 0, first404 |-> FALSE, all500 |-> TRUE, html200 |-> FALSE,
             last4xx |-> FALSE, last_json |-> FALSE, any_json |-> FALSE,
             last_class |-> "none", last_htmltype |-> FALSE]

Observe(ans) ==
    [n |-> seen.n + 1,
     first404 |-> IF seen.n = 0 THEN ans.status_code = 404 ELSE seen.first404,
     all500 |-> seen.all500 /\ ans.status_code = 500,
     html200 |-> seen.html200 \/ (pc = "Primary" /\ ans.status_code = 200
                                   /\ In("<html", Lower(ans.text))),
     last4xx |-> ans.status_code \in 400..499 \ {404, 429},
     last_json |-> In("application/json", Lower(ans.content_type)),
     any_json |-> seen.any_json \/ In("application/json", Lower(ans.content_type)),
     last_class |-> FailureClass(ans),
     last_htmltype |-> pc = "Primary" /\ In("text/html", Lower(ans.content_type))]

----------------------------------------------------------------------------
(* The HTTP clients: get_law_client constructs a LawClient, whose __init__ *)
(* constructs an httpx.AsyncClient, for each call and closes it when the   *)
(* call is over; the header loop constructs one more for each GET in an    *)
(* `async with` block, which closes it however the block is left.          *)

NoPools == [opened |-> 0, closed |-> 0]

\* httpx.AsyncClient(...)
acquire(p) == [p EXCEPT !.opened = @ + 1]

\* a client that is left open
release_never(p) == p

\* the end of the `async with` block; await client.close() in the finally clause
release(p) == [p EXCEPT !.closed = @ + 1]

----------------------------------------------------------------------------
(* Concurrent calls: the coroutines of several calls on one LawClient,     *)
(* each with its own locals, interleaved at their awaits.                  *)

NumTasks == 2

Tasks == 1..NumTasks

\* self.oc and self.base_url, assigned in __init__ and read by every call
LawClientAttributes == [oc |-> oc, base_url |-> base_url]

\* the locals of a coroutine that has not been called
NoFrame ==
    [pc |-> "Idle", op |-> "", search |-> 0, params |-> [k \in {} |-> ""], i |-> 0,
     inflight |-> FALSE, last_error |-> "", e |-> NoExc, result |-> Return(JNone)]

NoCall == [op |-> "", search |-> 0, law_id |-> "", reqs |-> <<>>, answers |-> <<>>]

----------------------------------------------------------------------------
(* Actions.                                                                *)

Init ==
    /\ pc = "Idle"
    /\ op = ""
    /\ search = 0
    /\ params = [k \in {} |-> ""]
    /\ i = 0
    /\ inflight = FALSE
    /\ last_error = ""
    /\ e = NoExc
    /\ result = Return(JNone)
    /\ returned = NoResponse
    /\ reqs = <<>>
    /\ seen = NoneSeen
    /\ http = NoAnswer
    /\ waits = <<>>
    /\ pools = NoPools
    /\ self = LawClientAttributes
    /\ frames = [t \in Tasks |-> NoFrame]
    /\ own = [t \in Tasks |-> NoCall]

\* a validation that checks the lower end only
valid_search_lax(s) == s >= 1

\* if search not in (1, 2): raise ValueError
valid_search(s) == s \in {1, 2}

\* search_laws(q, page, size, search) up to the first await
search_laws(s) ==
    /\ pc = "Idle"
    /\ op' = "search_laws"
    /\ search' = s
    /\ IF ~valid_search(s)
       THEN /\ pc' = "Failed"
            /\ result' = Raise(Exc("ValueError", "search must be 1 or 2", <<>>))
            /\ http' = RequestValidationError
            /\ UNCHANGED params
       ELSE /\ pc' = "Primary"
            /\ params' = search_params("law")
            /\ UNCHANGED <<result, http>>
    /\ pools' = IF valid_search(s) THEN acquire(pools) ELSE release(acquire(pools))
    /\ UNCHANGED <<i, inflight, last_error, e, returned, reqs, seen, waits>>
    /\ UNCHANGED task_vars

\* get_law_detail(law_id) up to the first await
get_law_detail(law_id) ==
    /\ pc = "Idle"
    /\ op' = "get_law_detail"
    /\ pc' = "Primary"
    /\ params' = detail_params(law_id)
    /\ pools' = acquire(pools)
    /\ UNCHANGED <<search, i, inflight, last_error, e, result, returned, reqs, seen, http,
                   waits>>
    /\ UNCHANGED task_vars

\* search_attachments(q, page, size) up to the first await
search_attachments ==
    /\ pc = "Idle"
    /\ op' = "search_attachments"
    /\ pc' = "Primary"
    /\ params' = search_params("licbyl")
    /\ pools' = acquire(pools)
    /\ UNCHANGED <<search, i, inflight, last_error, e, result, returned, reqs, seen, http,
                   waits>>
    /\ UNCHANGED task_vars

\* the loop of _make_request_with_fallback takes the next header combination
\* and suspends in temp_client.get
Send ==
    /\ pc \in {"Primary", "Fallback"}
    /\ ~inflight
    /\ more_headers(i)
    /\ i' = i + 1
    /\ inflight' = TRUE
    /\ reqs' = Append(reqs, Request(op, params, i + 1))
    /\ waits' = IF i >= 1
                THEN Append(waits, [attempt |-> i + 1, delay |-> wait_before_attempt(i + 1)])
                ELSE waits
    /\ pools' = acquire(pools)
    /\ UNCHANGED <<pc, op, search, params, last_error, e, result, returned, seen, http>>
    /\ UNCHANGED task_vars

\* the GET completes with ans; the coroutine runs to its next await or to its end
Receive(ans) ==
    /\ inflight
    /\ seen' = Observe(ans)
    /\ UNCHANGED reqs
    /\ IF ans.exc = "" /\ accepted(ans)
       THEN Continue(Return(ans), ans)
       ELSE LET last == IF ans.exc # "" THEN ans.exc ELSE last_error
            IN  IF ~more_headers(i)
                THEN Continue(Raise(all_attempts_failed(last)), NoResponse)
                ELSE /\ last_error' = last
                     /\ inflight' = FALSE
                     /\ UNCHANGED <<pc, op, search, params, i, e, result, returned, http,
                                     waits>>
    /\ pools' = IF pc' \in {"Success", "Failed"} THEN release(release(pools))
                ELSE release(pools)
    /\ UNCHANGED task_vars

Next ==
    \/ \E s \in 0..MaxSearch : search_laws(s)
    \/ \E law_id \in LawIds : get_law_detail(law_id)
    \/ search_attachments
    \/ Send
    \/ \E ans \in Answers(op) : Receive(ans)

Spec == Init /\ [][Next]_vars

\* One answer for each way the code can go on with an answer: a transport
\* error, an answer the loop does not accept, and accepted answers that are
\* empty, HTML, not JSON, JSON that is processed, and JSON whose processing
\* raises.
ControlBodies(o) ==
    { <<>>, <<"<html", ">page access failed</html>">>, <<"not json">>, <<"[r1]">> }
    \cup { <<d>> : d \in DocsOf(o) \cap
                      { "{LawSearch:{law:[r1,r2],totalCnt:2}}",
                        "{LawSearch:{law:[],totalCnt:'abc'}}",
                        "{licBylSearch:{licbyl:[a1],totalCnt:1}}",
                        "{law:info_mst}", "{}" } }

ControlAnswers(o) ==
    { a \in Answers(o) : /\ a.exc # "ConnectError"
                         /\ a.status_code \in {0, 200, 404, 500}
                         /\ a.text \in ControlBodies(o) }

NextControl ==
    \/ \E s \in 0..MaxSearch : search_laws(s)
    \/ \E law_id \in LawIds : get_law_detail(law_id)
    \/ search_attachments
    \/ Send
    \/ \E ans \in ControlAnswers(op) : Receive(ans)

\* The coroutine of the operation is resumed by the event loop whenever it can
\* run, and every GET ends: it is answered, or it fails (at the latest by the
\* 30 s timeout of the client the loop creates for it).
FairSpec ==
    /\ Init /\ [][NextControl]_vars
    /\ WF_vars(Send)
    /\ WF_vars(\E ans \in ControlAnswers(op) : Receive(ans))

----------------------------------------------------------------------------
(* _validate_json_response on its own: the method is applied to one        *)
(* response drawn from ClassifierResponses.                                *)

\* a body longer than the preview
LongBody == [k \in 1..(PreviewLen + 1) |-> IF k = 1 THEN "{" ELSE "x"]

ClassifierBodies ==
    HtmlBodies \cup OtherBodies
    \cup { LongBody, <<"chadan">>, <<"plain ", "<HTML", ">">>, <<"{}">>,
           <<" ", "{law:[r1]}", "\n">>, <<"{law:info_mst}">> }

ClassifierContentTypes ==
    ContentTypes \cup { <<"Application/JSON">>, <<"text/plain">>,
                        <<"application/json", "; charset=utf-8">> }

ClassifierResponses ==
    [exc : {""}, status_code : {200, 500}, content_type : ClassifierContentTypes,
     text : ClassifierBodies]

\* self._validate_json_response(response)
classify(response) ==
    /\ pc = "Idle"
    /\ pc' = "Classified"
    /\ returned' = response
    /\ result' = validate_json_response(response)
    /\ UNCHANGED <<op, search, params, i, inflight, last_error, e, reqs, seen, http, waits,
                   pools>>
    /\ UNCHANGED task_vars

NextClassify == \E response \in ClassifierResponses : classify(response)

SpecClassify == Init /\ [][NextClassify]_vars

----------------------------------------------------------------------------
(* Concurrent calls.  A coroutine runs from one await to the next without  *)
(* being interrupted, so a step of a task is a whole stretch of its code   *)
(* between two awaits; the steps of different tasks interleave freely.     *)
(* The stretches are those of the actions above, written as functions of   *)
(* the coroutine's locals.                                                 *)

\* each call of a coroutine function has locals of its own
frame_shared(t) == 1

frame(t) == t

\* the answers upstream gives a task: a transport error, a page the header
\* loop turns down, and a document of the operation's endpoint
TaskAnswers(o) ==
    { [exc |-> "ReadTimeout", status_code |-> 0, content_type |-> <<>>, text |-> <<>>],
      [exc |-> "", status_code |-> 200, content_type |-> <<"TEXT/HTML", "; charset=utf-8">>,
       text |-> <<"<html", ">page access failed</html>">>],
      [exc |-> "", status_code |-> 200, content_type |-> <<"application/json">>,
       text |-> CASE o = "search_laws" -> <<"{LawSearch:{law:[r1,r2],totalCnt:2}}">>
                  [] o = "search_attachments" -> <<"{licBylSearch:{licbyl:[a1],totalCnt:1}}">>
                  [] OTHER -> <<"{law:info_mst}">>] }

\* the calls a task is started with (search_laws with a valid search)
TaskCalls ==
    [op : {"search_laws"}, search : {2}, law_id : {""}]
    \cup [op : {"get_law_detail"}, search : {0}, law_id : LawIds]
    \cup [op : {"search_attachments"}, search : {0}, law_id : {""}]

\* the call up to its first await, reading the credential token from the instance
called(sh, c) ==
    [NoFrame EXCEPT
        !.pc = "Primary",
        !.op = c.op,
        !.search = c.search,
        !.params = [ (CASE c.op = "search_laws" -> search_params("law")
                        [] c.op = "search_attachments" -> search_params("licbyl")
                        [] c.op = "get_law_detail" -> detail_params(c.law_id))
                     EXCEPT !.OC = sh.oc ]]

\* the loop takes the next header combination and suspends in temp_client.get
sent(fr) == [fr EXCEPT !.i = @ + 1, !.inflight = TRUE]

\* the GET the coroutine is suspended in, reading the base URL from the instance
request_of(sh, fr) ==
    [Request(fr.op, fr.params, fr.i) EXCEPT !.url = <<sh.base_url, endpoint(fr.op)>>]

ended(fr, r) ==
    [fr EXCEPT !.pc = IF Raised(r) THEN "Failed" ELSE "Success", !.result = r,
               !.inflight = FALSE]

\* _make_request_with_fallback gave r
continued(fr, r) ==
    LET out == try_body(fr.op, fr.params, r)
    IN  CASE fr.op = "search_laws" /\ fr.pc = "Primary" ->
                IF out.exc.type = "UpstreamServiceError"
                THEN [fr EXCEPT !.pc = "Fallback", !.e = out.exc,
                                !.params = params_with_search(fr.params, fr.search),
                                !.i = 0, !.last_error = "", !.inflight = FALSE]
                ELSE ended(fr, out)
          [] fr.op = "search_laws" /\ fr.pc = "Fallback" ->
                IF Raised(out) THEN ended(fr, Raise(both_failed(fr.e, out.exc)))
                ELSE ended(fr, out)
          [] OTHER ->
                IF Raised(out) THEN ended(fr, Raise(reraise_or_wrap(fr.op, out.exc)))
                ELSE ended(fr, out)

\* the GET completes with ans; the coroutine runs to its next await or to its end
received(fr, ans) ==
    IF ans.exc = "" /\ accepted(ans)
    THEN continued(fr, Return(ans))
    ELSE LET last == IF ans.exc # "" THEN ans.exc ELSE fr.last_error
         IN  IF ~more_headers(fr.i)
             THEN continued(fr, Raise(all_attempts_failed(last)))
             ELSE [fr EXCEPT !.last_error = last, !.inflight = FALSE]

\* task t is started with call c
TaskCall(t, c) ==
    /\ own[t] = NoCall
    /\ frames[frame(t)].pc = "Idle"
    /\ frames' = [frames EXCEPT ![frame(t)] = called(self, c)]
    /\ own' = [own EXCEPT ![t] = [NoCall EXCEPT !.op = c.op, !.search = c.search,
                                                !.law_id = c.law_id]]
    /\ UNCHANGED self
    /\ UNCHANGED call_vars

TaskSend(t) ==
    LET fr == frames[frame(t)]
    IN  /\ own[t] # NoCall
        /\ fr.pc \in {"Primary", "Fallback"}
        /\ ~fr.inflight
        /\ more_headers(fr.i)
        /\ frames' = [frames EXCEPT ![frame(t)] = sent(fr)]
        /\ own' = [own EXCEPT ![t].reqs = Append(@, request_of(self, sent(fr)))]
        /\ UNCHANGED self
        /\ UNCHANGED call_vars

TaskReceive(t, ans) ==
    LET fr == frames[frame(t)]
    IN  /\ own[t] # NoCall
        /\ Len(own[t].answers) < Len(own[t].reqs)
        /\ fr.inflight
        /\ frames' = [frames EXCEPT ![frame(t)] = received(fr, ans)]
        /\ own' = [own EXCEPT ![t].answers = Append(@, ans)]
        /\ UNCHANGED self
        /\ UNCHANGED call_vars

NextTasks ==
    \/ \E t \in Tasks, c \in TaskCalls : TaskCall(t, c)
    \/ \E t \in Tasks : TaskSend(t)
    \/ \E t \in Tasks : \E ans \in TaskAnswers(own[t].op) : TaskReceive(t, ans)

SpecTasks == Init /\ [][NextTasks]_vars

----------------------------------------------------------------------------
(* Vocabulary of the properties.                                           *)

Terminal == pc \in {"Success", "Failed"}

HasSearch(r) == "search" \in DOMAIN r.params

\* the physical requests that carry the search (mode) parameter
WithSearch == {k \in 1..Len(reqs) : HasSearch(reqs[k])}

WithoutSearch == {k \in 1..Len(reqs) : ~HasSearch(reqs[k])}

\* the failure of the phase the operation ended in, recomputed from what it handled
LastPhaseFailure ==
    IF returned = NoResponse
    THEN all_attempts_failed(last_error)
    ELSE try_body(op, params, Return(returned)).exc

IsSubSeq(a, b) ==
    \E k \in 0..(Len(b) - Len(a)) : SubSeq(b, k + 1, k + Len(a)) = a

----------------------------------------------------------------------------
(* C1: in search_laws, when the primary formulation (sent without the      *)
(* search parameter) is answered with status 200 and an HTML body, exactly *)
(* one physical request carrying the caller's search parameter is issued   *)
(* afterwards; the operation returns that request's records if it yields   *)
(* valid JSON and fails only if that request also fails.                   *)

\* C1 as stated: exactly one request with the search parameter by the end
C1_ExactlyOneFallbackRequest ==
    (op = "search_laws" /\ seen.html200 /\ Terminal) =>
        /\ Cardinality(WithSearch) = 1
        /\ pc = "Success" => result = search_records(returned, "LawSearch", "law")

\* C1 as amended: once the primary phase has failed, the fallback phase
\* issues between one and NumHeaderCombinations requests that carry the
\* caller's search parameter, one per header combination and all after the
\* primary requests; the operation returns the records of the fallback
\* response that was accepted and fails with UpstreamServiceError exactly
\* when the fallback phase fails too.  A primary phase that ends without
\* UpstreamServiceError issues no request with the search parameter.
C1_FallbackPhaseAfterHtml ==
    (op = "search_laws" /\ seen.html200) =>
        /\ \A k \in WithSearch :
              /\ \A j \in WithoutSearch : j < k
              /\ reqs[k].params.search = ToString(search)
              /\ reqs[k].headers = k - Cardinality(WithoutSearch)
        /\ Cardinality(WithSearch) <= NumHeaderCombinations
        /\ pc = "Primary" => WithSearch = {}
        /\ pc = "Fallback" => e.type = "UpstreamServiceError"
        /\ Terminal =>
              IF e = NoExc
              THEN WithSearch = {}
              ELSE /\ Cardinality(WithSearch) >= 1
                   /\ pc = "Success" =>
                         /\ returned # NoResponse
                         /\ accepted(returned)
                         /\ LastPhaseFailure.type = ""
                         /\ result = search_records(returned, "LawSearch", "law")
                   /\ pc = "Failed" =>
                         /\ result.exc.type = "UpstreamServiceError"
                         /\ LastPhaseFailure.type # ""
                         /\ returned = NoResponse =>
                               Cardinality(WithSearch) = NumHeaderCombinations

C1_Witness ==
    /\ op = "search_laws" /\ seen.html200 /\ pc = "Success"
    /\ Cardinality(WithSearch) = 2

----------------------------------------------------------------------------
(* C2: for every operation and every sequence of upstream answers, at most *)
(* 4 physical GET requests are issued before the operation terminates.     *)

\* C2 as stated
C2_AtMostFourRequests == Len(reqs) <= 4

\* C2 as amended: at most 6 requests for search_laws (3 header combinations
\* for each of its two formulations) and at most 3 for get_law_detail and
\* search_attachments.
C2_RequestBound ==
    /\ Len(reqs) <= IF op = "search_laws" THEN 6 ELSE 3
    /\ Cardinality(WithSearch) <= 3
    /\ Cardinality(WithoutSearch) <= 3

C2_Witness == Terminal /\ op = "search_laws" /\ Len(reqs) = 6

----------------------------------------------------------------------------
(* C3: in get_law_detail, if the first upstream response has status 404,   *)
(* the operation fails with LawNotFoundError and no further upstream       *)
(* request is issued.                                                      *)

C3_NotFoundOnFirst404 ==
    (op = "get_law_detail" /\ seen.first404) =>
        /\ Len(reqs) = 1
        /\ Terminal => pc = "Failed" /\ result.exc.type = "LawNotFoundError"

----------------------------------------------------------------------------
(* C4: for each operation, if upstream answers every request of one call   *)
(* with status 500, the operation fails with UpstreamServiceError after    *)
(* exactly 3 physical attempts.                                            *)

\* C4 as stated
C4_ExactlyThreeAttempts ==
    (seen.n > 0 /\ seen.all500) =>
        /\ Len(reqs) <= 3
        /\ Terminal => /\ pc = "Failed"
                       /\ result.exc.type = "UpstreamServiceError"
                       /\ Len(reqs) = 3

\* C4 as amended: when every answer has status 500 and none has a JSON
\* content type, get_law_detail and search_attachments fail with
\* UpstreamServiceError after exactly 3 requests and search_laws after
\* exactly 6 (3 without and 3 with the search parameter); a 500 answer with
\* a JSON content type is not followed by another header combination: it
\* is handed to the response processing at once.
C4_AttemptsOn500 ==
    /\ (seen.n > 0 /\ seen.all500 /\ ~seen.any_json /\ Terminal) =>
          /\ pc = "Failed"
          /\ result.exc.type = "UpstreamServiceError"
          /\ returned = NoResponse
          /\ Cardinality(WithoutSearch) = 3
          /\ Cardinality(WithSearch) = IF op = "search_laws" THEN 3 ELSE 0
    /\ (seen.n > 0 /\ seen.all500 /\ seen.last_json /\ ~inflight) =>
          \/ Terminal /\ returned.status_code = 500
          \/ pc = "Fallback" /\ i = 0

C4_Witness ==
    /\ Terminal /\ seen.all500 /\ ~seen.any_json
    /\ op = "search_laws" /\ Len(reqs) = 6

----------------------------------------------------------------------------
(* C5: for every search value outside {1,2}, search_laws fails with an     *)
(* invalid-parameter error (ValueError) and no upstream request has been   *)
(* issued when it fails.                                                   *)

C5_InvalidSearchRejected ==
    (op = "search_laws" /\ search \notin {1, 2}) =>
        /\ pc = "Failed"
        /\ result.exc.type = "ValueError"
        /\ reqs = <<>>
        /\ ~inflight
        /\ seen.n = 0

C5_Witness == op = "search_laws" /\ search = 3 /\ pc = "Failed"

----------------------------------------------------------------------------
(* C6: every operation ends by returning data or by raising one of         *)
(* LawNotFoundError, UpstreamServiceError or the invalid-parameter error;  *)
(* an exception raised while processing an upstream response is raised to  *)
(* the caller as UpstreamServiceError, never raw.                          *)

C6_TypedErrorsOnly ==
    pc = "Failed" =>
        \/ result.exc.type \in {"LawNotFoundError", "UpstreamServiceError"}
        \/ /\ result.exc.type = "ValueError"
           /\ op = "search_laws" /\ search \notin {1, 2} /\ reqs = <<>>

----------------------------------------------------------------------------
(* C7: every operation follows only the transitions                        *)
(* Idle -> PrimaryAttempt -> {Success | FallbackAttempt -> {Success |      *)
(* Failed} | Failed}: the fallback formulation is entered at most once, it *)
(* is entered only from a failed primary attempt, and after Success or     *)
(* Failed no further upstream request is issued.                           *)

ClaimedTransitions ==
    { <<"Idle", "Primary">>, <<"Primary", "Success">>, <<"Primary", "Fallback">>,
      <<"Primary", "Failed">>, <<"Fallback", "Success">>, <<"Fallback", "Failed">> }

\* this step starts a request loop for the fallback formulation
EntersFallback == pc' = "Fallback" /\ i' = 0 /\ (pc # "Fallback" \/ i # 0)

\* the search argument is rejected before any attempt
RejectedUnattempted ==
    /\ pc = "Idle" /\ pc' = "Failed"
    /\ op' = "search_laws" /\ search' \notin {1, 2}
    /\ reqs' = <<>>

FallbackOnceAndTerminalQuiet ==
    /\ EntersFallback =>
          /\ pc = "Primary"
          /\ e = NoExc
          /\ e'.type = "UpstreamServiceError"
          /\ HasSearch([params |-> params'])
    /\ HasSearch([params |-> params']) => pc' \in {"Fallback", "Success", "Failed"}
    /\ Terminal => pc' = pc /\ reqs' = reqs /\ inflight' = inflight

\* C7 as stated
C7_ClaimedTransitionsOnly ==
    [][ /\ pc' # pc => <<pc, pc'>> \in ClaimedTransitions
        /\ FallbackOnceAndTerminalQuiet ]_vars

\* C7 as amended: the transitions are those of the claim and, in addition,
\* Idle -> Failed when search_laws rejects a search argument outside {1,2}
\* before any request is issued.
C7_Transitions ==
    [][ /\ pc' # pc => \/ <<pc, pc'>> \in ClaimedTransitions
                       \/ RejectedUnattempted
        /\ FallbackOnceAndTerminalQuiet ]_vars

C7_Witness ==
    /\ pc = "Failed" /\ op = "search_laws"
    /\ e.type = "UpstreamServiceError" /\ Len(reqs) = 6

----------------------------------------------------------------------------
(* C8: a response with a 4xx status other than 404 and 429 is surfaced as  *)
(* UpstreamServiceError without retry: after it no further request with    *)
(* the same query formulation is issued.                                   *)

\* this step issues a request with the formulation of the previous request
RepeatsFormulation ==
    /\ Len(reqs) >= 1
    /\ Len(reqs') = Len(reqs) + 1
    /\ reqs'[Len(reqs')].params = reqs[Len(reqs)].params

\* the answer just received is a 4xx other than 404 and 429
Got4xx == seen.n > 0 /\ seen.last4xx /\ ~inflight

\* C8 as stated
C8_No4xxRetry == [][seen.last4xx => ~RepeatsFormulation]_vars

\* C8 as amended: a 4xx answer other than 404 and 429 is handed to the
\* response processing without retry only when its content type contains
\* application/json; otherwise it is followed by a request with the same
\* formulation and the next header combination, unless it answered the
\* last header combination of that formulation, in which case the phase
\* fails with UpstreamServiceError.
C8_4xxHandling ==
    /\ [](Got4xx =>
            IF seen.last_json
            THEN \/ Terminal /\ returned.status_code \in 400..499
                 \/ pc = "Fallback" /\ i = 0
            ELSE \/ pc \in {"Primary", "Fallback"} /\ i \in 1..(NumHeaderCombinations - 1)
                 \/ /\ pc = "Failed" /\ returned = NoResponse
                    /\ i = NumHeaderCombinations
                    /\ result.exc.type = "UpstreamServiceError"
                 \/ /\ pc = "Fallback" /\ i = 0
                    /\ e.type = "UpstreamServiceError"
                    /\ e.message = all_attempts_failed("").message
                    /\ Cardinality(WithoutSearch) = NumHeaderCombinations)
    /\ [][(Got4xx /\ ~seen.last_json /\ ~Terminal /\ i # 0 /\ vars' # vars)
            => RepeatsFormulation /\ reqs'[Len(reqs')].headers = i + 1]_vars

C8_Witness ==
    /\ seen.last4xx /\ ~seen.last_json /\ inflight /\ i = 2 /\ pc = "Primary"

----------------------------------------------------------------------------
(* C9: when both the primary and the fallback phase of search_laws fail,   *)
(* the raised UpstreamServiceError carries one detail string that contains *)
(* the failure detail of the primary phase and the failure detail (the     *)
(* machine diagnostic: classifier hint, parse-error preview) of the        *)
(* fallback phase.                                                         *)

BothPhasesFailed ==
    op = "search_laws" /\ pc = "Failed" /\ e.type = "UpstreamServiceError"

C9_DetailOfBothPhases ==
    BothPhasesFailed =>
        /\ result.exc.type = "UpstreamServiceError"
        /\ IsSubSeq(e.detail, result.exc.detail)
        /\ LastPhaseFailure.type = "UpstreamServiceError" =>
              IsSubSeq(LastPhaseFailure.detail, result.exc.detail)

----------------------------------------------------------------------------
(* C10: when the payload parses as JSON, get_law_detail fails with         *)
(* LawNotFoundError if and only if none of the candidate locations of the  *)
(* statute-info sub-object, checked in order (beopryeong -> gibonjeongbo,  *)
(* then law), holds a non-empty mapping; {beopryeong:{gibonjeongbo:{}}}    *)
(* fails with LawNotFoundError, and a payload in which a later candidate   *)
(* location holds a non-empty mapping yields a detail record built from it *)

NonEmptyMapping(x) == x.t = "dict" /\ DOMAIN x.v # {}

\* the candidate locations of the claim, in order (JNone where there is none)
CandidateLocations(data) ==
    IF data.t # "dict" THEN <<>>
    ELSE << IF /\ "beopryeong" \in DOMAIN data.v
               /\ data.v["beopryeong"].t = "dict"
               /\ "gibonjeongbo" \in DOMAIN data.v["beopryeong"].v
            THEN data.v["beopryeong"].v["gibonjeongbo"] ELSE JNone,
            IF "law" \in DOMAIN data.v THEN data.v["law"] ELSE JNone >>

\* the payload is a mapping and what it holds at beopryeong, gibonjeongbo and
\* law is a mapping wherever present
WellTyped(data) ==
    /\ data.t = "dict"
    /\ \A k \in DOMAIN data.v \cap {"beopryeong", "law"} : data.v[k].t = "dict"
    /\ "beopryeong" \in DOMAIN data.v =>
          \A k \in DOMAIN data.v["beopryeong"].v \cap {"gibonjeongbo"} :
              data.v["beopryeong"].v[k].t = "dict"

\* a detail lookup that ended on a response whose body parsed as JSON
DetailOnJson ==
    /\ op = "get_law_detail" /\ Terminal
    /\ returned # NoResponse /\ returned.status_code # 404
    /\ ~Raised(validate_json_response(returned))
    /\ WellTyped(validate_json_response(returned).val)

C10_NotFoundIffNoCandidate ==
    DetailOnJson =>
        LET c == CandidateLocations(validate_json_response(returned).val)
            hits == {k \in 1..Len(c) : NonEmptyMapping(c[k])}
        IN  /\ result.exc.type = "LawNotFoundError" <=> hits = {}
            /\ hits # {} =>
                  LET info == c[CHOOSE k \in hits : \A j \in hits : k <= j]
                  IN  /\ pc = "Success"
                      /\ result.val.title = resolve_title(info)
                      /\ result.val.effective_date = resolve_eff(info)

----------------------------------------------------------------------------
(* C11: in get_law_detail the source URL references the master identifier *)
(* (MST=<mst>) exactly when a non-empty master identifier was resolved     *)
(* from the record, carries the effective-date qualifier (efYd=<date>)     *)
(* exactly when a master identifier was resolved and a non-empty effective *)
(* date is known, and otherwise references the requested identifier        *)
(* (ID=<id>) and no master identifier.                                     *)

\* the part `value` follows the part `key` in the url
Carries(url, key, value) ==
    \E k \in 1..(Len(url) - 1) : url[k] = key /\ url[k + 1] = value

Mentions(url, key) == \E k \in 1..Len(url) : url[k] = key

\* a detail lookup that returned a record
DetailSuccess == op = "get_law_detail" /\ pc = "Success"

\* the statute-info object the lookup built its record from
ChosenInfo == law_info_of(validate_json_response(returned).val).val

C11_SourceUrl ==
    DetailSuccess =>
        LET url == result.val.source_url
            mst == resolve_mst(ChosenInfo)
            eff == resolve_eff(ChosenInfo)
        IN  /\ Mentions(url, "&target=law&type=HTML&MST=") <=> Truthy(mst)
            /\ Truthy(mst) => Carries(url, "&target=law&type=HTML&MST=", Str(mst))
            /\ Mentions(url, "&efYd=") <=> (Truthy(mst) /\ Truthy(eff))
            /\ (Truthy(mst) /\ Truthy(eff)) => Carries(url, "&efYd=", Str(eff))
            /\ Mentions(url, "&target=law&type=HTML&ID=") <=> ~Truthy(mst)
            /\ ~Truthy(mst) => Carries(url, "&target=law&type=HTML&ID=", params.ID)

\* a record with MST 'mst123' and no effective date gave MST=mst123 and no qualifier
C11_Witness ==
    /\ DetailSuccess
    /\ ChosenInfo = info_mst_nodate
    /\ Carries(result.val.source_url, "&target=law&type=HTML&MST=", "mst123")
    /\ ~Mentions(result.val.source_url, "&efYd=")

----------------------------------------------------------------------------
(* C12: every canonical field of every upstream record resolves to the     *)
(* value of the first key of the field's ordered candidate list whose      *)
(* value is non-empty, and to the empty/absent default when no candidate   *)
(* is non-empty; of a primary and an alias key that are both non-empty the *)
(* primary wins (MST before beopryeongilryeonbeonho;                       *)
(* beopryeongmyeong_hangeul before beopryeongmyeonghangeul before LAW_NM;  *)
(* sihaengilja before EF_YD).                                              *)

\* the value of the first key of keys that rec holds non-empty, else JNone
RECURSIVE FirstNonEmpty(_, _)
FirstNonEmpty(rec, keys) ==
    IF keys = <<>> THEN JNone
    ELSE IF Head(keys) \in DOMAIN rec.v /\ Truthy(rec.v[Head(keys)])
    THEN rec.v[Head(keys)]
    ELSE FirstNonEmpty(rec, Tail(keys))

\* resolved is what the candidate list keys selects in rec
ResolvesTo(resolved, rec, keys) ==
    IF Truthy(FirstNonEmpty(rec, keys)) THEN resolved = FirstNonEmpty(rec, keys)
    ELSE ~Truthy(resolved)

\* the candidate lists the claim names
ClaimedKeys(field) ==
    CASE field = "mst" -> <<"MST", "beopryeongilryeonbeonho">>
      [] field = "title" ->
            <<"beopryeongmyeong_hangeul", "beopryeongmyeonghangeul", "LAW_NM">>
      [] field = "effective_date" -> <<"sihaengilja", "EF_YD">>

\* the candidate lists each place of the code uses
CandidateKeys(o, field) ==
    IF o = "get_law_detail" THEN ClaimedKeys(field)
    ELSE IF o = "search_laws"
    THEN CASE field = "law_id" -> <<"LAW_ID", "beopryeongID">>
           [] field = "title" -> <<"LAW_NM", "beopryeongmyeonghangeul">>
           [] field = "effective_date" -> <<"EF_YD", "sihaengilja">>
           [] field = "promulgation_date" -> <<"PO_DT", "gongpoilja">>
    ELSE CASE field = "law_id" -> <<"beopryeongID", "LAW_ID">>
           [] field = "law_title" -> <<"beopryeongmyeong", "LAW_NM">>
           [] field = "attachment_name" -> <<"byeolpyoseosikmyeong", "ATTACHMENT_NAME">>
           [] field = "attachment_type" -> <<"jongryu", "TYPE">>
           [] field = "attachment_no" -> <<"beonho", "NO">>
           [] field = "ministry" -> <<"sogwanbucheo", "MINISTRY">>
           [] field = "promulgation_date" -> <<"gongpoilja", "PO_DT">>
           [] field = "html_link" -> <<"HTMLlingkeu", "HTML_LINK">>
           [] field = "file_link" -> <<"pailingkeu", "FILE_LINK">>
           [] field = "pdf_link" -> <<"PDFlingkeu", "PDF_LINK">>

\* a search whose route answered 200 with mapped records
SearchAnswered == op \in {"search_laws", "search_attachments"} /\ http.status_code = 200

\* the master identifier the source URL of the detail record was built from
UrlResolves(url, rec, keys) ==
    IF Truthy(FirstNonEmpty(rec, keys))
    THEN Carries(url, "&target=law&type=HTML&MST=", Str(FirstNonEmpty(rec, keys)))
    ELSE ~Mentions(url, "&target=law&type=HTML&MST=")

DetailResolves ==
    DetailSuccess =>
        /\ UrlResolves(result.val.source_url, ChosenInfo, ClaimedKeys("mst"))
        /\ \A f \in {"title", "effective_date"} :
               ResolvesTo(result.val[f], ChosenInfo, ClaimedKeys(f))

\* C12 as stated: the named candidate orders hold for the records of every place
C12_ClaimedOrderEverywhere ==
    /\ DetailResolves
    /\ (op = "search_laws" /\ http.status_code = 200) =>
          \A k \in 1..Len(http.body.items) :
              \A f \in {"title", "effective_date"} :
                  ResolvesTo(http.body.items[k][f], result.val.items.v[k], ClaimedKeys(f))

\* C12 as amended: each place resolves by first-non-empty over its own list
C12_FirstNonEmptyPerPlace ==
    /\ DetailResolves
    /\ SearchAnswered =>
          \A k \in 1..Len(http.body.items) :
              \A f \in DOMAIN http.body.items[k] :
                  ResolvesTo(http.body.items[k][f], result.val.items.v[k],
                             CandidateKeys(op, f))

\* a search record holding both LAW_NM and beopryeongmyeonghangeul was mapped
C12_Witness ==
    /\ op = "search_laws" /\ http.status_code = 200
    /\ Len(http.body.items) = 1
    /\ result.val.items.v[1] = rec3
    /\ http.body.items[1].title = JS("title3")
    /\ http.body.items[1].effective_date = JS("20240101")

----------------------------------------------------------------------------
(* C13: in search_laws and search_attachments the record field of the      *)
(* envelope is normalized: a single mapping becomes the one-element        *)
(* sequence containing it, a sequence is returned unchanged (same          *)
(* elements, same order), and the returned records are always a sequence.  *)

SearchSuccess == op \in {"search_laws", "search_attachments"} /\ pc = "Success"

\* the record field of the envelope the operation returned from
RecordField ==
    LET data == validate_json_response(returned).val
        container == Get(data, IF op = "search_laws" THEN "LawSearch" ELSE "licBylSearch",
                         data)
    IN  Get(container, IF op = "search_laws" THEN "law" ELSE "licbyl", JL(<<>>))

C13_RecordsAlwaysSequence ==
    SearchSuccess =>
        /\ RecordField.t = "dict" => result.val.items = JL(<<RecordField>>)
        /\ RecordField.t = "list" => result.val.items = RecordField
        /\ result.val.items.t = "list"

----------------------------------------------------------------------------
(* C14: search_attachments never performs the mode fallback: every request *)
(* it issues targets target=licbyl with the same parameters and no search  *)
(* (mode) parameter, and it issues a single physical request per logical   *)
(* call whatever upstream answers.                                         *)

\* every request so far is the one attachment formulation
SameAttachmentFormulation ==
    \A k \in 1..Len(reqs) :
        /\ reqs[k].url = <<base_url, "/lawSearch.do">>
        /\ reqs[k].params.target = "licbyl"
        /\ ~HasSearch(reqs[k])
        /\ reqs[k].params = reqs[1].params

\* C14 as stated: one formulation and one physical request
C14_SingleRequest ==
    op = "search_attachments" =>
        /\ SameAttachmentFormulation
        /\ pc # "Fallback"
        /\ Len(reqs) <= 1

\* C14 as amended: one formulation, sent once per header combination until an
\* answer is accepted, three times at most
C14_NoModeFallback ==
    op = "search_attachments" =>
        /\ SameAttachmentFormulation
        /\ pc # "Fallback"
        /\ Len(reqs) <= NumHeaderCombinations
        /\ \A k \in 1..Len(reqs) : reqs[k].headers = k
        /\ (pc = "Failed" /\ returned = NoResponse) => Len(reqs) = NumHeaderCombinations
        /\ (Terminal /\ seen.n = 1) => Len(reqs) = 1

\* an attachment search that failed after three requests of the one formulation
C14_Witness ==
    /\ op = "search_attachments" /\ pc = "Failed"
    /\ Len(reqs) = NumHeaderCombinations
    /\ result.exc = all_attempts_failed(last_error)

----------------------------------------------------------------------------
(* C15: between consecutive attempts of one formulation of a logical call  *)
(* the executor waits a backoff delay; the delays are strictly increasing  *)
(* from one attempt to the next and never exceed a fixed cap.  (Any finite *)
(* run has a largest delay, so the formula states the wait and its growth.)*)

C15_BackoffBetweenAttempts ==
    \A k \in 1..Len(waits) :
        /\ waits[k].delay > 0
        /\ (k > 1 /\ waits[k].attempt > waits[k - 1].attempt) =>
               waits[k].delay > waits[k - 1].delay

----------------------------------------------------------------------------
(* C16: the detail string of every UpstreamServiceError raised by any      *)
(* operation, and with it the detail field of the 503 answer of the        *)
(* adapter, never contains the credential token (OC), whatever upstream    *)
(* answers, answers whose body echoes the request URL included.            *)

C16_NoTokenInDetail ==
    /\ (pc = "Failed" /\ result.exc.type = "UpstreamServiceError") =>
           ~In(oc, result.exc.detail)
    /\ http.status_code = 503 => ~In(oc, http.detail)

----------------------------------------------------------------------------
(* C17: the recovery policy is determined by the failure class.  A network *)
(* error, timeout, 429 or 5xx failure of the primary formulation is        *)
(* handled by the retry loop only and, once the loop is exhausted, fails   *)
(* the operation with UpstreamServiceError without any request carrying    *)
(* the search (mode) parameter; an HTML-page or malformed-JSON outcome of  *)
(* the primary formulation is never retried with the same formulation, the *)
(* next request (if any) being the fallback formulation.                   *)

\* this step is the arrival of the answer to a request of the primary formulation
PrimaryAnswered == pc = "Primary" /\ inflight /\ seen'.n = seen.n + 1

\* C17 as stated
C17_PolicyByFailureClass ==
    [][ /\ (PrimaryAnswered /\ seen'.last_class = "transient") => pc' # "Fallback"
        /\ (pc = "Primary" /\ seen.last_class = "malformed") => ~RepeatsFormulation ]_vars

\* the loop leaves the answer just received unaccepted and has combinations left
StaysInPrimary ==
    /\ pc' = "Primary" /\ i' = i /\ params' = params
    /\ i < NumHeaderCombinations

\* the primary phase ends in failure: search_laws turns to the fallback
\* formulation, the other operations fail with UpstreamServiceError
PrimaryPhaseFails ==
    IF op = "search_laws"
    THEN pc' = "Fallback" /\ i' = 0 /\ HasSearch([params |-> params'])
    ELSE pc' = "Failed" /\ result'.exc.type = "UpstreamServiceError"

\* C17 as amended: the recovery is determined by whether the loop accepts the
\* answer.  A transient failure or a text/html answer, without a JSON content
\* type, is followed by the same formulation with the next header combination;
\* when it answered the last combination the primary phase fails.  A malformed
\* answer the loop accepts makes the primary phase fail at once, and no answer
\* with a JSON content type is followed by a retry.
C17_PolicyByAcceptance ==
    [][ /\ ( /\ PrimaryAnswered
             /\ ~seen'.last_json
             /\ \/ seen'.last_class = "transient"
                \/ seen'.last_class = "malformed" /\ seen'.last_htmltype )
           => IF i < NumHeaderCombinations THEN StaysInPrimary ELSE PrimaryPhaseFails
        /\ ( /\ PrimaryAnswered
             /\ seen'.last_class = "malformed"
             /\ seen'.last_json \/ ~seen'.last_htmltype )
           => PrimaryPhaseFails
        /\ (PrimaryAnswered /\ seen'.last_json) => pc' # "Primary"
        /\ (pc = "Primary" /\ seen.n > 0 /\ Len(reqs') = Len(reqs) + 1)
           => RepeatsFormulation /\ reqs'[Len(reqs')].headers = i + 1 ]_vars

\* three transient failures of the primary formulation started the fallback phase
C17_Witness ==
    /\ op = "search_laws" /\ pc = "Fallback" /\ i = 0
    /\ seen.n = NumHeaderCombinations /\ seen.last_class = "transient" /\ ~seen.any_json
    /\ e = all_attempts_failed(last_error)

----------------------------------------------------------------------------
(* C18: search_laws ends with the invalid-parameter error (ValueError,     *)
(* answered 400 INVALID_PARAMETER by the adapter) only when the caller's   *)
(* search argument is outside {1,2}: for a search argument in {1,2} no     *)
(* upstream answer, a non-numeric totalCnt included, makes the operation   *)
(* end with it.                                                            *)

C18_InvalidParameterOnlyForBadSearch ==
    (op = "search_laws" /\ pc = "Failed") =>
        /\ result.exc.type = "ValueError" => search \notin {1, 2}
        /\ http.code = "INVALID_PARAMETER" => search \notin {1, 2}

----------------------------------------------------------------------------
(* C19: provided every physical request eventually is answered or fails,   *)
(* every operation that was called eventually returns or raises, whatever  *)
(* upstream answers; no operation issues requests forever.                 *)

Called == pc \in {"Primary", "Fallback"}

C19_Terminates == Called ~> Terminal

\* the longest run: both phases of search_laws used up all header combinations
C19_Witness ==
    /\ Terminal /\ op = "search_laws"
    /\ seen.n = 2 * NumHeaderCombinations
    /\ returned = NoResponse

----------------------------------------------------------------------------
(* C20: if an attempt of a logical call fails transiently (connection      *)
(* failure, timeout, 429 or 5xx) and fewer than 3 attempts have been made, *)
(* another attempt with the same formulation is issued, and if that        *)
(* attempt is answered with status 200 and valid JSON the operation        *)
(* returns Success with that payload's data.                               *)

\* this step is the arrival of the answer to attempt i of the current formulation
Answered == Called /\ inflight /\ seen'.n = seen.n + 1

\* the operation stays in the loop of the current formulation
StaysInLoop == pc' = pc /\ i' = i /\ params' = params /\ ~inflight'

\* the operation ended on the answer just received, a 200 with a JSON body
EndedOnJson200 ==
    /\ pc' \in {"Success", "Failed"}
    /\ returned' # NoResponse /\ returned'.status_code = 200 /\ Parses(returned'.text)

----------------------------------------------------------------------------
(* C21: _validate_json_response is total and gives exactly one outcome,    *)
(* with this precedence: Empty iff the body is absent or whitespace-only;  *)
(* otherwise HtmlErrorPage iff the content type contains an HTML marker,   *)
(* or the body contains an HTML root tag, or the body contains one of the  *)
(* known access/auth failure phrases; otherwise Json if the body parses as *)
(* JSON and ParseError, with a preview of at most 300 characters of the    *)
(* body, if it does not.                                                   *)

Classified == pc = "Classified"

\* the outcome of the classification, by name
Outcome ==
    IF ~Raised(result) THEN "Json"
    ELSE IF result.exc.type # "UpstreamServiceError" THEN "none"
    ELSE CASE result.exc.message = "empty response" -> "Empty"
           [] result.exc.message = "HTML response" -> "HtmlErrorPage"
           [] result.exc.message = "JSON parsing failed" -> "ParseError"
           [] OTHER -> "none"

BodyBlank == \A k \in 1..Len(returned.text) : returned.text[k] \in Whitespace

HtmlMarked ==
    \/ \E k \in 1..Len(returned.content_type) :
           LowerPart(returned.content_type[k]) = "text/html"
    \/ \E k \in 1..Len(returned.text) : LowerPart(returned.text[k]) = "<html"

HasFailurePhrase ==
    \E k \in 1..Len(returned.text) :
        LowerPart(returned.text[k]) \in AuthKeywords \cup BlockKeywords

\* the preview the ParseError carries: what follows " | Preview: " in the detail
Preview == SubSeq(result.exc.detail, 4, Len(result.exc.detail))

PreviewIsHeadOfBody ==
    /\ Len(Preview) <= PreviewLen
    /\ Len(Preview) = IF Len(returned.text) > PreviewLen THEN PreviewLen
                      ELSE Len(returned.text)
    /\ \A k \in 1..Len(Preview) : Preview[k] = returned.text[k]

\* C21 as stated
C21_ClassifierByPhrase ==
    Classified =>
        /\ Outcome \in {"Empty", "HtmlErrorPage", "Json", "ParseError"}
        /\ Outcome = "Empty" <=> BodyBlank
        /\ ~BodyBlank => (Outcome = "HtmlErrorPage" <=> (HtmlMarked \/ HasFailurePhrase))
        /\ (~BodyBlank /\ ~HtmlMarked /\ ~HasFailurePhrase) =>
              IF Parses(returned.text)
              THEN Outcome = "Json" /\ result.val = Loads(returned.text)
              ELSE Outcome = "ParseError" /\ PreviewIsHeadOfBody

\* C21 as amended: the failure phrases do not make a body an HTML page; they
\* only choose the hint of a body that is one by content type or root tag
C21_ClassifierByMarker ==
    Classified =>
        /\ Outcome \in {"Empty", "HtmlErrorPage", "Json", "ParseError"}
        /\ Outcome = "Empty" <=> BodyBlank
        /\ ~BodyBlank => (Outcome = "HtmlErrorPage" <=> HtmlMarked)
        /\ (~BodyBlank /\ ~HtmlMarked) =>
              IF Parses(returned.text)
              THEN Outcome = "Json" /\ result.val = Loads(returned.text)
              ELSE Outcome = "ParseError" /\ PreviewIsHeadOfBody

\* a body longer than the preview that does not parse was cut to the preview
C21_Witness ==
    /\ Classified /\ Outcome = "ParseError"
    /\ returned.text = LongBody
    /\ Len(Preview) = PreviewLen

----------------------------------------------------------------------------
(* C22: whenever an operation fails because upstream answered with an HTML *)
(* error page (announced by a text/html content type or only recognisable  *)
(* from the body), the detail of the raised UpstreamServiceError carries   *)
(* the classifier's hint for that page: the authentication hint if the     *)
(* page contains an authentication/permission word, otherwise the          *)
(* access-blocked hint if it contains an access-blocked word, otherwise    *)
(* the generic HTML hint.                                                  *)

FailedUpstream == pc = "Failed" /\ result.exc.type = "UpstreamServiceError"

\* the operation ended on a response the classifier took for an HTML page
EndedOnHtmlBody ==
    /\ returned # NoResponse
    /\ Raised(validate_json_response(returned))
    /\ validate_json_response(returned).exc.message = "HTML response"

\* the operation ended when its last answer, a status-200 page announced as
\* text/html, was turned down by the header loop (single-phase operations and
\* the primary phase only: seen.last_htmltype is kept for these)
EndedOnHtmlType ==
    /\ returned = NoResponse
    /\ seen.last_htmltype /\ seen.last_class = "malformed"

\* the first part of each of the three hints
HintHeads ==
    { "AUTHENTICATION_ERROR - check the API key",
      "ACCESS_BLOCKED - IP or request blocked",
      "HTML_RESPONSE - Content-Type: " }

\* C22 as stated, as far as the answers are observed: the hint of the page the
\* operation ended on is part of the detail; for a page the loop turned down,
\* whose body is not kept, one of the three hints is
C22_HtmlHintInDetail ==
    FailedUpstream =>
        /\ EndedOnHtmlBody => IsSubSeq(html_error_detail(returned), result.exc.detail)
        /\ EndedOnHtmlType => \E h \in HintHeads : In(h, result.exc.detail)

----------------------------------------------------------------------------
(* C23: an operation returns Success only on the basis of a physical       *)
(* response whose status is 200: a response with status 429, 5xx or any    *)
(* 4xx is never turned into returned records or a returned detail record,  *)
(* whatever its content type and body (a JSON content type with a          *)
(* parseable body included).                                               *)

\* C23 as stated: the response a successful operation processed had status 200
C23_SuccessOnlyOn200 ==
    pc = "Success" => returned # NoResponse /\ returned.status_code = 200

----------------------------------------------------------------------------
(* C24: for any number of client operations running concurrently as        *)
(* cooperative tasks and any interleaving of their suspension points, each *)
(* operation's request sequence and outcome depend only on its own         *)
(* arguments and on the answers to its own requests, and no operation      *)
(* changes the credential token, the base URL or any other state another   *)
(* operation reads.                                                        *)

CallOf(t) == [op |-> own[t].op, search |-> own[t].search, law_id |-> own[t].law_id]

\* the locals of a coroutine that ran alone from frame fr and was given the answers
RECURSIVE replayed(_, _)
replayed(fr, answers) ==
    IF answers = <<>> THEN fr
    ELSE replayed(received(sent(fr), Head(answers)), Tail(answers))

\* the first n requests of a coroutine that runs alone from frame fr and is
\* given the answers
RECURSIVE requests_alone(_, _, _)
requests_alone(fr, answers, n) ==
    IF n = 0 THEN <<>>
    ELSE <<request_of(LawClientAttributes, sent(fr))>>
         \o (IF answers = <<>> THEN <<>>
             ELSE requests_alone(received(sent(fr), Head(answers)), Tail(answers), n - 1))

\* what task t would be if its call ran alone and got the answers t got
Alone(t) ==
    LET fr == replayed(called(LawClientAttributes, CallOf(t)), own[t].answers)
    IN  IF Len(own[t].reqs) > Len(own[t].answers) THEN sent(fr) ELSE fr

----------------------------------------------------------------------------
(* C25: the connection pool is a single long-lived resource: it is created *)
(* once, no logical operation and no physical request constructs a new     *)
(* HTTP client or pool, and every client or pool that is opened is         *)
(* released (closed) on every path, whether the operation using it returns *)
(* or raises.                                                              *)

Running == pc \in {"Primary", "Fallback"}

\* C25 as stated: one client at most is ever constructed, and none is open
\* once the operation is over
C25_SinglePool ==
    /\ pools.opened <= 1
    /\ Terminal => pools.closed = pools.opened

\* C25 as amended: a call constructs one client of its own and one more for
\* each GET; the client of a GET is closed when the GET is over and the
\* client of the call when the call is, so that none stays open
C25_EveryClientClosed ==
    /\ pools.opened = (IF op = "" THEN 0 ELSE 1) + Len(reqs)
    /\ pools.opened - pools.closed =
          (IF Running THEN 1 ELSE 0) + (IF inflight THEN 1 ELSE 0)
    /\ Terminal => pools.closed = pools.opened

\* a search_laws that raised after six GETs: seven clients opened, seven closed
C25_Witness ==
    /\ pc = "Failed" /\ Raised(result)
    /\ Len(reqs) = 2 * NumHeaderCombinations
    /\ pools.opened = 2 * NumHeaderCombinations + 1
    /\ pools.closed = pools.opened

====
